---------------------------- MODULE Spec2Model ----------------------------
(***************************************************************************)
(* Model of package eventual (github.com/getlantern/eventual), the version *)
(* with Cancel: eventual.go lines 89-210.  A value holds a status flag, an *)
(* atomically published payload, a slice of waiter channels and a mutex.   *)
(* Every goroutine calling Get, Set or Cancel is a process; one step of a  *)
(* process is one atomic operation on shared memory, or a run of           *)
(* operations that no other goroutine can observe.  The earlier version    *)
(* without Cancel (lines 1-87) is Spec1, over the same variables.          *)
(***************************************************************************)
EXTENDS Naturals, Sequences, FiniteSets, TLC

\* ---- bounds of the model ------------------------------------------------
NumGetters == 2
NumSetters == 2
NumCancelers == 1

Getters == 1..NumGetters
Setters == 1..NumSetters
Cancelers == 1..NumCancelers

\* The arguments of the calls.  The program never inspects a payload, and no
\* step of the model depends on the duration: two payloads tell the values of
\* two Set calls apart; the durations are zero and a positive one.
Values == {"hi", "bye"}
Timeouts == {0, 10}

\* ---- program constants (eventual.go lines 98-102) -----------------------
unset == 0
set == 1
canceled == 2

\* nil interface value / nil slice
Nil == "nil"
NilSlice == [nil |-> TRUE, chans |-> <<>>]
Slice(chs) == [nil |-> FALSE, chans |-> chs]
Free == <<"free", 0>>

VARIABLES
    status,      \* v.status, read and written atomically
    val,         \* v.val (atomic.Value); Nil until the first Store
    waiters,     \* v.waiters: the nil slice or a slice of channels
    mutex,       \* v.mutex: Free or the process holding it
    chanBuf,     \* chanBuf[g]: buffer of the channel Get g made (capacity 1)
    chanClosed,  \* chanClosed[g]: whether that channel has been closed
    gpc,         \* position of each Get call
    timeout,     \* <<d>> for a Get call in progress with timeout d, else <<>>
    hasCh,       \* whether Get g has made its channel valCh
    ret,         \* <<ret, valid>> of each Get call once returned
    spc,         \* position of each Set call
    sval,        \* the val argument of each Set call in progress
    sidx,        \* position of each Set call in its range loop
    cpc,         \* position of each Cancel call
    cidx,        \* position of each Cancel call in its range loop
    panicked,    \* a send on a closed channel or a second close happened
    \* history variables, read by the properties only
    how,         \* the return statement each Get call left through
    began,       \* what had happened when each Get call began
    firstRes,    \* the first Set or Cancel call that acquired the mutex
    lastDone,    \* the kind of the last Set or Cancel call that returned
    stored       \* the values that Set calls have stored in v.val

vars == <<status, val, waiters, mutex, chanBuf, chanClosed, gpc, timeout,
          hasCh, ret, spc, sval, sidx, cpc, cidx, panicked, how, began,
          firstRes, lastDone, stored>>

getVars == <<gpc, timeout, hasCh, ret, how, began>>
setVars == <<spc, sval, sidx>>
cancelVars == <<cpc, cidx>>
chanVars == <<chanBuf, chanClosed>>
histVars == <<firstRes, lastDone, stored>>

\* what a Get call records of the history when it begins
NoHistory == [cancelDone |-> FALSE, resolveDone |-> FALSE,
              setBegun |-> FALSE, setThenCancel |-> FALSE]

History ==
    [cancelDone |-> \E c \in Cancelers : cpc[c] = "done",
     resolveDone |-> (\E c \in Cancelers : cpc[c] = "done")
                        \/ (\E s \in Setters : spc[s] = "done"),
     setBegun |-> \E s \in Setters : spc[s] # "idle",
     setThenCancel |-> /\ \E s \in Setters : spc[s] = "done"
                       /\ \A s \in Setters : spc[s] \in {"idle", "done"}
                       /\ lastDone = "cancel"]

\* The calls of one kind are numbered in the order in which they begin (the
\* goroutines are interchangeable, so this loses no behaviour).
InOrder(pc, p) == \A q \in DOMAIN pc : q < p => pc[q] # "idle"

\* NewValue (lines 131-133)
Init ==
    /\ status = unset
    /\ val = Nil
    /\ waiters = Slice(<<>>)
    /\ mutex = Free
    /\ chanBuf = [g \in Getters |-> <<>>]
    /\ chanClosed = [g \in Getters |-> FALSE]
    /\ gpc = [g \in Getters |-> "idle"]
    /\ timeout = [g \in Getters |-> <<>>]
    /\ hasCh = [g \in Getters |-> FALSE]
    /\ ret = [g \in Getters |-> <<Nil, FALSE>>]
    /\ spc = [s \in Setters |-> "idle"]
    /\ sval = [s \in Setters |-> Nil]
    /\ sidx = [s \in Setters |-> 0]
    /\ cpc = [c \in Cancelers |-> "idle"]
    /\ cidx = [c \in Cancelers |-> 0]
    /\ panicked = FALSE
    /\ how = [g \in Getters |-> "none"]
    /\ began = [g \in Getters |-> NoHistory]
    /\ firstRes = <<"none", Nil>>
    /\ lastDone = "none"
    /\ stored = {}


\* ---- Get (lines 173-210) ------------------------------------------------

\* return ret, valid  (h names the return statement); the arguments of the
\* call are gone
Return(g, r, h) ==
    /\ timeout' = [timeout EXCEPT ![g] = <<>>]
    /\ ret' = [ret EXCEPT ![g] = r]
    /\ how' = [how EXCEPT ![g] = h]
    /\ gpc' = [gpc EXCEPT ![g] = "done"]

\* status := atomic.LoadInt32(&v.status), before the lock (line 174)
\* (variant: the unlocked load never sees a resolved status)
NoFastPath == unset
FastPathStatus == status

\* status = atomic.LoadInt32(&v.status), under the lock (line 186)
StaleRecheck == unset
LockedStatus == status

\* return nil, false for a canceled value (lines 178, 190)
CanceledResult == <<Nil, FALSE>>

\* v.val.Load(), true  (lines 181, 193-195)
LoadedResult == <<val, TRUE>>

\* append(v.waiters, valCh) (line 200); append to a nil slice makes a new one
NotRegistered(ws, ch) == ws
Registered(ws, ch) == Slice(Append(ws.chans, ch))

\* v, ok := <-valCh (lines 205-206): a buffered value, or the zero value and
\* ok = false from a closed and drained channel
\* (variant: ok is ignored, as in  case v := <-valCh: return v, true)
RecvIgnoresOk(buf) == IF buf # <<>> THEN <<Head(buf), TRUE>> ELSE <<Nil, TRUE>>
RecvResult(buf) == IF buf # <<>> THEN <<Head(buf), TRUE>> ELSE <<Nil, FALSE>>

\* return nil, false after the timer fired (line 208)
\* (variant: the timeout branch reports valid)
TimeoutTrue == <<Nil, TRUE>>
TimeoutResult == <<Nil, FALSE>>

\* lines 173-182: the call begins, loads the status and takes the fast path
\* for a canceled value; for a set value the payload is loaded next
GetBegin(g) ==
    /\ ~panicked
    /\ gpc[g] = "idle"
    /\ InOrder(gpc, g)
    /\ began' = [began EXCEPT ![g] = History]
    /\ LET st == FastPathStatus IN
        IF st = canceled
            THEN Return(g, CanceledResult, "fast")
            ELSE /\ \E t \in Timeouts : timeout' = [timeout EXCEPT ![g] = <<t>>]
                 /\ gpc' = [gpc EXCEPT ![g] = IF st = set THEN "fastload" ELSE "lock"]
                 /\ UNCHANGED <<ret, how>>
    /\ UNCHANGED <<status, val, waiters, mutex, chanVars, hasCh, setVars,
                   cancelVars, panicked, histVars>>

\* line 181: return v.val.Load(), true
GetFastLoad(g) ==
    /\ ~panicked
    /\ gpc[g] = "fastload"
    /\ Return(g, LoadedResult, "fast")
    /\ UNCHANGED <<status, val, waiters, mutex, chanVars, hasCh,
                   began, setVars, cancelVars, panicked, histVars>>

\* line 185: v.mutex.Lock()
GetLock(g) ==
    /\ ~panicked
    /\ gpc[g] = "lock"
    /\ mutex = Free
    /\ mutex' = <<"get", g>>
    /\ gpc' = [gpc EXCEPT ![g] = "recheck"]
    /\ UNCHANGED <<status, val, waiters, chanVars, timeout, hasCh, ret, how,
                   began, setVars, cancelVars, panicked, histVars>>

\* lines 186-196: the status is read again under the lock; a resolved value
\* is returned after unlocking
GetRecheck(g) ==
    /\ ~panicked
    /\ gpc[g] = "recheck"
    /\ LET st == LockedStatus IN
        IF st = canceled
            THEN /\ mutex' = Free
                 /\ Return(g, CanceledResult, "slow")
            ELSE IF st = set
                THEN /\ mutex' = Free
                     /\ Return(g, LoadedResult, "slow")
                ELSE /\ gpc' = [gpc EXCEPT ![g] = "register"]
                     /\ UNCHANGED <<mutex, timeout, ret, how>>
    /\ UNCHANGED <<status, val, waiters, chanVars, hasCh, began,
                   setVars, cancelVars, panicked, histVars>>

\* (variant: the channel is registered and the call goes on to the select
\* without unlocking)
GetRegisterKeepsLock(g) ==
    /\ ~panicked
    /\ gpc[g] = "register"
    /\ hasCh' = [hasCh EXCEPT ![g] = TRUE]
    /\ waiters' = Registered(waiters, g)
    /\ gpc' = [gpc EXCEPT ![g] = "wait"]
    /\ UNCHANGED <<status, val, chanVars, mutex, timeout, ret, how, began,
                   setVars, cancelVars, panicked, histVars>>

\* lines 199-201: make the channel, append it to the waiters, unlock
GetRegister(g) ==
    /\ ~panicked
    /\ gpc[g] = "register"
    /\ hasCh' = [hasCh EXCEPT ![g] = TRUE]
    /\ waiters' = Registered(waiters, g)
    /\ mutex' = Free
    /\ gpc' = [gpc EXCEPT ![g] = "wait"]
    /\ UNCHANGED <<status, val, chanVars, timeout, ret, how, began, setVars,
                   cancelVars, panicked, histVars>>

\* whether a receive from the channel of g can proceed
CanRecv(g) == chanBuf[g] # <<>> \/ chanClosed[g]

\* lines 204-206: the select receives from valCh
GetRecv(g) ==
    /\ ~panicked
    /\ gpc[g] = "wait"
    /\ CanRecv(g)
    /\ Return(g, RecvResult(chanBuf[g]), "chan")
    /\ chanBuf' = [chanBuf EXCEPT ![g] = IF @ # <<>> THEN Tail(@) ELSE @]
    /\ UNCHANGED <<status, val, waiters, mutex, chanClosed, hasCh,
                   began, setVars, cancelVars, panicked, histVars>>

\* line 207: time.After(d) delivers on its channel once d has elapsed, for
\* every duration d; no duration is treated as "no deadline"
NoTimerForZero(d) == d # 0
TimerFires(d) == d \in Timeouts

\* (variant: a Get that times out cancels the value)
GetTimeoutCancels(g) ==
    /\ ~panicked
    /\ gpc[g] = "wait"
    /\ status' = canceled
    /\ Return(g, TimeoutResult, "timeout")
    /\ UNCHANGED <<val, waiters, mutex, chanVars, hasCh,
                   began, setVars, cancelVars, panicked, histVars>>

\* lines 207-208: the timer of time.After(timeout) fired.  Time is not
\* modelled: the timer of a waiting call may fire at any moment.
GetTimeout(g) ==
    /\ ~panicked
    /\ gpc[g] = "wait"
    /\ TimerFires(timeout[g][1])
    /\ Return(g, TimeoutResult, "timeout")
    /\ UNCHANGED <<status, val, waiters, mutex, chanVars, hasCh,
                   began, setVars, cancelVars, panicked, histVars>>

\* the steps of a Get call after it began
GetStep(g) ==
    \/ GetFastLoad(g)
    \/ GetLock(g)
    \/ GetRecheck(g)
    \/ GetRegister(g)
    \/ GetRecv(g)
    \/ GetTimeout(g)


\* ---- Set (lines 142-156) ------------------------------------------------

\* make(chan interface{}, 1) (line 199): the capacity of a waiter channel
ChanCap == 1

\* atomic.StoreInt32(&v.status, set) (line 146): whatever the status was
\* (variant: Set forgets to store the status)
SetLeavesStatus(old) == old
SetNewStatus(old) == set

\* waiter <- val (line 151): the value enters the channel's buffer
\* (variant: the send is dropped)
SendNothing(buf, x) == buf
SendNil(buf, x) == Append(buf, Nil)
Send(buf, x) == Append(buf, x)

\* v.waiters = nil (lines 154, 169)
\* (variant: the waiters are kept)
NotCleared(ws) == ws
Cleared(ws) == NilSlice

\* (variant: the status is stored as soon as the mutex is acquired, before
\* the payload)
SetLockPublishes(s) ==
    /\ ~panicked
    /\ spc[s] = "idle"
    /\ InOrder(spc, s)
    /\ mutex = Free
    /\ mutex' = <<"set", s>>
    /\ status' = set
    /\ \E x \in Values :
        /\ sval' = [sval EXCEPT ![s] = x]
        /\ firstRes' = IF firstRes[1] = "none" THEN <<"set", x>> ELSE firstRes
    /\ spc' = [spc EXCEPT ![s] = "storeval"]
    /\ UNCHANGED <<val, waiters, chanVars, getVars, sidx, cancelVars,
                   panicked, lastDone, stored>>

\* lines 142-144: the call begins and acquires the mutex
SetLock(s) ==
    /\ ~panicked
    /\ spc[s] = "idle"
    /\ InOrder(spc, s)
    /\ mutex = Free
    /\ mutex' = <<"set", s>>
    /\ \E x \in Values :
        /\ sval' = [sval EXCEPT ![s] = x]
        /\ firstRes' = IF firstRes[1] = "none" THEN <<"set", x>> ELSE firstRes
    /\ spc' = [spc EXCEPT ![s] = "storeval"]
    /\ UNCHANGED <<status, val, waiters, chanVars, getVars, sidx, cancelVars,
                   panicked, lastDone, stored>>

\* line 145: v.val.Store(val)
SetStoreVal(s) ==
    /\ ~panicked
    /\ spc[s] = "storeval"
    /\ val' = sval[s]
    /\ stored' = stored \cup {sval[s]}
    /\ spc' = [spc EXCEPT ![s] = "storestatus"]
    /\ UNCHANGED <<status, waiters, mutex, chanVars, getVars, sval, sidx,
                   cancelVars, panicked, firstRes, lastDone>>

\* line 146: atomic.StoreInt32(&v.status, set)
SetStoreStatus(s) ==
    /\ ~panicked
    /\ spc[s] = "storestatus"
    /\ status' = SetNewStatus(status)
    /\ spc' = [spc EXCEPT ![s] = "notify"]
    /\ sidx' = [sidx EXCEPT ![s] = 1]
    /\ UNCHANGED <<val, waiters, mutex, chanVars, getVars, sval, cancelVars,
                   panicked, histVars>>

\* lines 148-155: with waiters nil nothing is done; otherwise one send per
\* turn of the loop, and the waiters are cleared after the last one.  A send
\* on a closed channel panics; a send to a full channel blocks.
SetNotify(s) ==
    /\ ~panicked
    /\ spc[s] = "notify"
    /\ IF waiters = NilSlice
        THEN /\ spc' = [spc EXCEPT ![s] = "unlock"]
             /\ UNCHANGED <<waiters, chanBuf, sidx, panicked, mutex>>
        ELSE IF sidx[s] > Len(waiters.chans)
            THEN /\ waiters' = Cleared(waiters)
                 /\ spc' = [spc EXCEPT ![s] = "unlock"]
                 /\ UNCHANGED <<chanBuf, sidx, panicked, mutex>>
            ELSE LET ch == waiters.chans[sidx[s]] IN
                IF chanClosed[ch]
                    THEN /\ panicked' = TRUE
                         /\ mutex' = Free
                         /\ spc' = [spc EXCEPT ![s] = "panic"]
                         /\ UNCHANGED <<waiters, chanBuf, sidx>>
                    ELSE /\ Len(chanBuf[ch]) < ChanCap
                         /\ chanBuf' = [chanBuf EXCEPT ![ch] = Send(@, sval[s])]
                         /\ sidx' = [sidx EXCEPT ![s] = @ + 1]
                         /\ UNCHANGED <<waiters, spc, panicked, mutex>>
    /\ UNCHANGED <<status, val, chanClosed, getVars, sval, cancelVars, histVars>>

\* line 144: the deferred v.mutex.Unlock(); the call returns
SetUnlock(s) ==
    /\ ~panicked
    /\ spc[s] = "unlock"
    /\ mutex' = Free
    /\ spc' = [spc EXCEPT ![s] = "done"]
    /\ sidx' = [sidx EXCEPT ![s] = 0]
    /\ sval' = [sval EXCEPT ![s] = Nil]
    /\ lastDone' = "set"
    /\ UNCHANGED <<status, val, waiters, chanVars, getVars, cancelVars,
                   panicked, firstRes, stored>>

\* the steps of a Set call after it acquired the mutex
SetStep(s) ==
    \/ SetStoreVal(s)
    \/ SetStoreStatus(s)
    \/ SetNotify(s)
    \/ SetUnlock(s)

\* ---- Cancel (lines 158-171) ---------------------------------------------

\* atomic.StoreInt32(&v.status, canceled) (line 161): whatever the status was
\* (variants: Cancel leaves a set value set; Cancel resets a set value)
CancelKeepsSet(old) == IF old = set THEN set ELSE canceled
CancelResets(old) == IF old = set THEN unset ELSE canceled
CancelNewStatus(old) == canceled

\* close(waiter) (line 166)
\* (variant: the channel is left open)
CloseNothing(closed, ch) == closed
Close(closed, ch) == [closed EXCEPT ![ch] = TRUE]

\* lines 158-160: the call begins and acquires the mutex
CancelLock(c) ==
    /\ ~panicked
    /\ cpc[c] = "idle"
    /\ InOrder(cpc, c)
    /\ mutex = Free
    /\ mutex' = <<"cancel", c>>
    /\ firstRes' = IF firstRes[1] = "none" THEN <<"cancel", Nil>> ELSE firstRes
    /\ cpc' = [cpc EXCEPT ![c] = "storestatus"]
    /\ UNCHANGED <<status, val, waiters, chanVars, getVars, setVars, cidx,
                   panicked, lastDone, stored>>

\* line 161: atomic.StoreInt32(&v.status, canceled)
CancelStoreStatus(c) ==
    /\ ~panicked
    /\ cpc[c] = "storestatus"
    /\ status' = CancelNewStatus(status)
    /\ cpc' = [cpc EXCEPT ![c] = "notify"]
    /\ cidx' = [cidx EXCEPT ![c] = 1]
    /\ UNCHANGED <<val, waiters, mutex, chanVars, getVars, setVars, panicked,
                   histVars>>

\* lines 163-170: with waiters nil nothing is done; otherwise one close per
\* turn of the loop, and the waiters are cleared after the last one.  Closing
\* a closed channel panics.
CancelNotify(c) ==
    /\ ~panicked
    /\ cpc[c] = "notify"
    /\ IF waiters = NilSlice
        THEN /\ cpc' = [cpc EXCEPT ![c] = "unlock"]
             /\ UNCHANGED <<waiters, chanClosed, cidx, panicked, mutex>>
        ELSE IF cidx[c] > Len(waiters.chans)
            THEN /\ waiters' = Cleared(waiters)
                 /\ cpc' = [cpc EXCEPT ![c] = "unlock"]
                 /\ UNCHANGED <<chanClosed, cidx, panicked, mutex>>
            ELSE LET ch == waiters.chans[cidx[c]] IN
                IF chanClosed[ch]
                    THEN /\ panicked' = TRUE
                         /\ mutex' = Free
                         /\ cpc' = [cpc EXCEPT ![c] = "panic"]
                         /\ UNCHANGED <<waiters, chanClosed, cidx>>
                    ELSE /\ chanClosed' = Close(chanClosed, ch)
                         /\ cidx' = [cidx EXCEPT ![c] = @ + 1]
                         /\ UNCHANGED <<waiters, cpc, panicked, mutex>>
    /\ UNCHANGED <<status, val, chanBuf, getVars, setVars, histVars>>

\* line 160: the deferred v.mutex.Unlock(); the call returns
CancelUnlock(c) ==
    /\ ~panicked
    /\ cpc[c] = "unlock"
    /\ mutex' = Free
    /\ cpc' = [cpc EXCEPT ![c] = "done"]
    /\ cidx' = [cidx EXCEPT ![c] = 0]
    /\ lastDone' = "cancel"
    /\ UNCHANGED <<status, val, waiters, chanVars, getVars, setVars,
                   panicked, firstRes, stored>>

\* the steps of a Cancel call after it acquired the mutex
CancelStep(c) ==
    \/ CancelStoreStatus(c)
    \/ CancelNotify(c)
    \/ CancelUnlock(c)

\* ---- the program ---------------------------------------------------------

\* goroutines call Get, Set and Cancel at any time; a panic ends the program
Next ==
    \/ \E g \in Getters : GetBegin(g) \/ GetStep(g)
    \/ \E s \in Setters : SetLock(s) \/ SetStep(s)
    \/ \E c \in Cancelers : CancelLock(c) \/ CancelStep(c)

Spec == Init /\ [][Next]_vars

\* The Go scheduler runs every runnable goroutine: a call that began takes
\* its next step when that step stays possible, and the timer of a waiting
\* Get fires.  Whether and when a call begins is up to the callers.
Fairness ==
    /\ \A g \in Getters : WF_vars(GetStep(g))
    /\ \A s \in Setters : WF_vars(SetStep(s))
    /\ \A c \in Cancelers : WF_vars(CancelStep(c))

FairSpec == Spec /\ Fairness


\* ---- the version without Cancel (lines 1-87) ------------------------------
\* The earlier version has the flag firstSet in the place of status; the
\* variable status holds it.  There are no Cancel calls, no channel is ever
\* closed and nothing panics.

\* lines 11-12
intFalse == 0
intTrue == 1

\* the variables this version leaves alone
noCancel == <<cancelVars, chanClosed, panicked>>

\* NewValue (lines 37-39)
Init1 ==
    /\ status = intFalse
    /\ val = Nil
    /\ waiters = Slice(<<>>)
    /\ mutex = Free
    /\ chanBuf = [g \in Getters |-> <<>>]
    /\ chanClosed = [g \in Getters |-> FALSE]
    /\ gpc = [g \in Getters |-> "idle"]
    /\ timeout = [g \in Getters |-> <<>>]
    /\ hasCh = [g \in Getters |-> FALSE]
    /\ ret = [g \in Getters |-> <<Nil, FALSE>>]
    /\ spc = [s \in Setters |-> "idle"]
    /\ sval = [s \in Setters |-> Nil]
    /\ sidx = [s \in Setters |-> 0]
    /\ cpc = [c \in Cancelers |-> "idle"]
    /\ cidx = [c \in Cancelers |-> 0]
    /\ panicked = FALSE
    /\ how = [g \in Getters |-> "none"]
    /\ began = [g \in Getters |-> NoHistory]
    /\ firstRes = <<"none", Nil>>
    /\ lastDone = "none"
    /\ stored = {}

\* line 61: the call begins and loads firstSet before the lock
Get1Begin(g) ==
    /\ gpc[g] = "idle"
    /\ InOrder(gpc, g)
    /\ began' = [began EXCEPT ![g] = History]
    /\ \E t \in Timeouts : timeout' = [timeout EXCEPT ![g] = <<t>>]
    /\ gpc' = [gpc EXCEPT ![g] = IF status = intTrue THEN "fastload" ELSE "lock"]
    /\ UNCHANGED <<status, val, waiters, mutex, chanBuf, hasCh, ret, how,
                   setVars, noCancel, histVars>>

\* line 62: return v.val.Load(), true
Get1FastLoad(g) ==
    /\ gpc[g] = "fastload"
    /\ Return(g, <<val, TRUE>>, "fast")
    /\ UNCHANGED <<status, val, waiters, mutex, chanBuf, hasCh, began,
                   setVars, noCancel, histVars>>

\* line 67: v.mutex.Lock()
Get1Lock(g) ==
    /\ gpc[g] = "lock"
    /\ mutex = Free
    /\ mutex' = <<"get", g>>
    /\ gpc' = [gpc EXCEPT ![g] = "recheck"]
    /\ UNCHANGED <<status, val, waiters, chanBuf, timeout, hasCh, ret, how,
                   began, setVars, noCancel, histVars>>

\* lines 68-73: firstSet is read again under the lock; a value found is
\* returned after unlocking
Get1Recheck(g) ==
    /\ gpc[g] = "recheck"
    /\ IF status = intTrue
        THEN /\ mutex' = Free
             /\ Return(g, <<val, TRUE>>, "slow")
        ELSE /\ gpc' = [gpc EXCEPT ![g] = "register"]
             /\ UNCHANGED <<mutex, timeout, ret, how>>
    /\ UNCHANGED <<status, val, waiters, chanBuf, hasCh, began, setVars,
                   noCancel, histVars>>

\* lines 75-77: make the channel, append it to the waiters, unlock
Get1Register(g) ==
    /\ gpc[g] = "register"
    /\ hasCh' = [hasCh EXCEPT ![g] = TRUE]
    /\ waiters' = Slice(Append(waiters.chans, g))
    /\ mutex' = Free
    /\ gpc' = [gpc EXCEPT ![g] = "wait"]
    /\ UNCHANGED <<status, val, chanBuf, timeout, ret, how, began, setVars,
                   noCancel, histVars>>

\* lines 82-83: the select receives from valCh and returns v, true
Get1Recv(g) ==
    /\ gpc[g] = "wait"
    /\ chanBuf[g] # <<>>
    /\ Return(g, <<Head(chanBuf[g]), TRUE>>, "chan")
    /\ chanBuf' = [chanBuf EXCEPT ![g] = Tail(@)]
    /\ UNCHANGED <<status, val, waiters, mutex, hasCh, began, setVars,
                   noCancel, histVars>>

\* lines 84-85: the timer of time.After(timeout) fired
Get1Timeout(g) ==
    /\ gpc[g] = "wait"
    /\ Return(g, <<Nil, FALSE>>, "timeout")
    /\ UNCHANGED <<status, val, waiters, mutex, chanBuf, hasCh, began,
                   setVars, noCancel, histVars>>

\* the steps of a Get call of this version after it began
Get1Step(g) ==
    \/ Get1FastLoad(g)
    \/ Get1Lock(g)
    \/ Get1Recheck(g)
    \/ Get1Register(g)
    \/ Get1Recv(g)
    \/ Get1Timeout(g)

\* lines 48-50: the call begins and acquires the mutex
Set1Lock(s) ==
    /\ spc[s] = "idle"
    /\ InOrder(spc, s)
    /\ mutex = Free
    /\ mutex' = <<"set", s>>
    /\ \E x \in Values :
        /\ sval' = [sval EXCEPT ![s] = x]
        /\ firstRes' = IF firstRes[1] = "none" THEN <<"set", x>> ELSE firstRes
    /\ spc' = [spc EXCEPT ![s] = "storeval"]
    /\ UNCHANGED <<status, val, waiters, chanBuf, getVars, sidx, noCancel,
                   lastDone, stored>>

\* line 51: v.val.Store(val)
Set1StoreVal(s) ==
    /\ spc[s] = "storeval"
    /\ val' = sval[s]
    /\ stored' = stored \cup {sval[s]}
    /\ spc' = [spc EXCEPT ![s] = "storefirstset"]
    /\ UNCHANGED <<status, waiters, mutex, chanBuf, getVars, sval, sidx,
                   noCancel, firstRes, lastDone>>

\* line 52: atomic.StoreInt32(&v.firstSet, intTrue)
Set1StoreFirstSet(s) ==
    /\ spc[s] = "storefirstset"
    /\ status' = intTrue
    /\ spc' = [spc EXCEPT ![s] = "notify"]
    /\ sidx' = [sidx EXCEPT ![s] = 1]
    /\ UNCHANGED <<val, waiters, mutex, chanBuf, getVars, sval, noCancel,
                   histVars>>

\* lines 54-56: one send per turn of the loop over v.waiters, which is left
\* as it is after the loop.  A send to a channel whose buffer is full blocks
\* until a Get receives from it.
Set1Notify(s) ==
    /\ spc[s] = "notify"
    /\ IF sidx[s] > Len(waiters.chans)
        THEN /\ spc' = [spc EXCEPT ![s] = "unlock"]
             /\ UNCHANGED <<chanBuf, sidx>>
        ELSE LET ch == waiters.chans[sidx[s]] IN
             /\ Len(chanBuf[ch]) < ChanCap
             /\ chanBuf' = [chanBuf EXCEPT ![ch] = Append(@, sval[s])]
             /\ sidx' = [sidx EXCEPT ![s] = @ + 1]
             /\ UNCHANGED spc
    /\ UNCHANGED <<status, val, waiters, mutex, getVars, sval, noCancel,
                   histVars>>

\* line 50: the deferred v.mutex.Unlock(); the call returns
Set1Unlock(s) ==
    /\ spc[s] = "unlock"
    /\ mutex' = Free
    /\ spc' = [spc EXCEPT ![s] = "done"]
    /\ sidx' = [sidx EXCEPT ![s] = 0]
    /\ sval' = [sval EXCEPT ![s] = Nil]
    /\ lastDone' = "set"
    /\ UNCHANGED <<status, val, waiters, chanBuf, getVars, noCancel,
                   firstRes, stored>>

\* the steps of a Set call of this version after it acquired the mutex
Set1Step(s) ==
    \/ Set1StoreVal(s)
    \/ Set1StoreFirstSet(s)
    \/ Set1Notify(s)
    \/ Set1Unlock(s)

\* goroutines call Get and Set at any time
Next1 ==
    \/ \E g \in Getters : Get1Begin(g) \/ Get1Step(g)
    \/ \E s \in Setters : Set1Lock(s) \/ Set1Step(s)

Spec1 == Init1 /\ [][Next1]_vars

\* every call that began takes its next step when that step stays possible
Fairness1 ==
    /\ \A g \in Getters : WF_vars(Get1Step(g))
    /\ \A s \in Setters : WF_vars(Set1Step(s))

FairSpec1 == Spec1 /\ Fairness1


\* ---- notions used by the properties --------------------------------------

\* the channel of Get g is an element of v.waiters
InWaiters(g) == \E i \in 1..Len(waiters.chans) : waiters.chans[i] = g

\* some Set or Cancel call has returned
SomeResolveDone == lastDone # "none"

\* no Set or Cancel call has begun
NoResolveBegun == firstRes[1] = "none"

Returned(g) == gpc[g] = "done"
Valid(g) == ret[g][2]

\* ---- C1 -------------------------------------------------------------------
\* C1: when the first call to acquire the mutex is Set(x), every Get that
\* registered its channel (which it can only have done before that) and that
\* did not time out returns (x, true); and once that Set has returned, x lies
\* in the channel of every Get still waiting, so none can return anything
\* else through it.
C1_FanIn ==
    \A g \in Getters :
        (hasCh[g] /\ firstRes[1] = "set") =>
            /\ (Returned(g) /\ how[g] = "chan") => ret[g] = <<firstRes[2], TRUE>>
            /\ (gpc[g] = "wait" /\ SomeResolveDone) =>
                    (chanBuf[g] = <<firstRes[2]>> /\ ~chanClosed[g])

\* all the Get calls registered, and all returned (x, true) through their
\* channels
C1_Witness ==
    /\ firstRes[1] = "set"
    /\ \A g \in Getters :
        Returned(g) /\ how[g] = "chan" /\ ret[g] = <<firstRes[2], TRUE>>

\* ---- C2 -------------------------------------------------------------------
\* C2: a Get that began after a Cancel call had returned returns valid=false,
\* whatever Set calls were made after that Cancel.
C2_CancelPermanent ==
    \A g \in Getters :
        (began[g].cancelDone /\ Returned(g)) => ~Valid(g)

C4_SetThenCancel ==
    \A g \in Getters :
        began[g].setThenCancel =>
            Returned(g) /\ how[g] = "fast" /\ ret[g] = <<Nil, FALSE>>

\* two Get calls after Set then Cancel, both answered (nil, false)
C4_Witness ==
    \E g, h \in Getters :
        /\ g # h
        /\ began[g].setThenCancel /\ began[h].setThenCancel
        /\ Returned(g) /\ Returned(h)
        /\ ret[g] = <<Nil, FALSE>> /\ ret[h] = <<Nil, FALSE>>

\* ---- C5 -------------------------------------------------------------------
\* a registered Get when the first call to acquire the mutex is Cancel: once
\* a Cancel has returned its channel is closed and empty, so the receive is
\* possible; and whatever way it returns, it returns (nil, false)
C5_Safe(g) ==
    (hasCh[g] /\ firstRes[1] = "cancel") =>
        /\ (gpc[g] = "wait" /\ SomeResolveDone) =>
                (chanClosed[g] /\ chanBuf[g] = <<>> /\ ENABLED GetRecv(g))
        /\ Returned(g) => ret[g] = <<Nil, FALSE>>

\* C5: a Get that registered and is waiting when Cancel runs before any Set
\* can return (nil, false) through its closed channel as soon as Cancel has
\* returned, and it does return valid=false.
C5_CancelPreemptsTimeout ==
    /\ [](\A g \in Getters : C5_Safe(g))
    /\ \A g \in Getters :
        (hasCh[g] /\ firstRes[1] = "cancel") ~> (Returned(g) /\ ~Valid(g))

\* a Get returned (nil, false) through the channel that Cancel closed
C5_Witness ==
    \E g \in Getters :
        /\ firstRes[1] = "cancel"
        /\ Returned(g) /\ how[g] = "chan" /\ ret[g] = <<Nil, FALSE>>

\* ---- C6 -------------------------------------------------------------------
\* C6: a Get that began after a Cancel had returned, when no Set had begun,
\* has returned (nil, false) in its first step: it made no channel, is not in
\* the waiters and never waited.
C6_CancelThenGet ==
    \A g \in Getters :
        (began[g].cancelDone /\ ~began[g].setBegun) =>
            /\ Returned(g) /\ how[g] = "fast" /\ ret[g] = <<Nil, FALSE>>
            /\ ~hasCh[g] /\ ~InWaiters(g)

C6_Witness ==
    \E g \in Getters :
        /\ began[g].cancelDone /\ ~began[g].setBegun
        /\ Returned(g) /\ ret[g] = <<Nil, FALSE>>
        /\ \A s \in Setters : spc[s] = "idle"

\* ---- C7 -------------------------------------------------------------------
\* exactly one Set call, Set(x), has begun and no Cancel call
OnlySet ==
    /\ firstRes[1] = "set"
    /\ Cardinality({s \in Setters : spc[s] # "idle"}) = 1
    /\ \A c \in Cancelers : cpc[c] = "idle"

\* C7: a Get that timed out returns (nil, false); with a single Set(x) and no
\* Cancel, every Get that did not time out returns (x, true), whether or not
\* another Get timed out before, and x is in the channel of a Get still
\* waiting when Set has returned; a Get returns valid=true only with a value
\* that some Set has stored.
C7_BasicResolution ==
    \A g \in Getters :
        /\ (Returned(g) /\ how[g] = "timeout") => ret[g] = <<Nil, FALSE>>
        /\ (OnlySet /\ Returned(g) /\ how[g] # "timeout") =>
                ret[g] = <<firstRes[2], TRUE>>
        /\ (OnlySet /\ gpc[g] = "wait" /\ SomeResolveDone) =>
                chanBuf[g] = <<firstRes[2]>>
        /\ (Returned(g) /\ Valid(g)) => ret[g][1] \in stored

\* one Get timed out and left its channel in the waiters, where Set(x) sent
\* to it; another Get returned (x, true) through its own channel
C7_Witness ==
    \E g, h \in Getters :
        /\ OnlySet
        /\ Returned(g) /\ how[g] = "timeout" /\ ret[g] = <<Nil, FALSE>>
        /\ chanBuf[g] = <<firstRes[2]>>
        /\ Returned(h) /\ how[h] = "chan" /\ ret[h] = <<firstRes[2], TRUE>>

\* ---- C8 -------------------------------------------------------------------
\* while no Set or Cancel has begun: a Get that returned did so through the
\* timeout with (nil, false), and a waiting Get cannot receive
C8_Safe(g) ==
    NoResolveBegun =>
        /\ Returned(g) => (how[g] = "timeout" /\ ret[g] = <<Nil, FALSE>>)
        /\ gpc[g] = "wait" => ~ENABLED GetRecv(g)

\* C8: on a container never set and never canceled every Get returns, through
\* the timeout only, with (nil, false).  (A Set or Cancel that has begun stays
\* begun, so "unless one has begun" states "if none ever begins".)
C8_NoValueEver ==
    /\ [](\A g \in Getters : C8_Safe(g))
    /\ \A g \in Getters :
        (gpc[g] # "idle") ~> (Returned(g) \/ ~NoResolveBegun)

\* every Get call timed out on a container nobody resolved
C8_Witness ==
    /\ NoResolveBegun
    /\ \A g \in Getters :
        Returned(g) /\ how[g] = "timeout" /\ ret[g] = <<Nil, FALSE>>

\* ---- C9 -------------------------------------------------------------------
\* C9 as claimed: the channel of a Get that has returned is not in the
\* waiters.
C9_NoLeakedWaiters ==
    \A g \in Getters : Returned(g) => ~InWaiters(g)

\* C9 amended: the channel of a Get that has returned is out of the waiters
\* once a Set or Cancel call has returned; before any Set or Cancel began, it
\* is in the waiters exactly when the Get timed out.
C9_NoLeakAfterResolve ==
    \A g \in Getters :
        Returned(g) =>
            /\ SomeResolveDone => ~InWaiters(g)
            /\ NoResolveBegun => (InWaiters(g) <=> how[g] = "timeout")

\* the channel of a timed-out Get was removed by a Set or Cancel
C9_Witness ==
    \E g \in Getters :
        /\ Returned(g) /\ how[g] = "timeout" /\ hasCh[g]
        /\ SomeResolveDone /\ ~InWaiters(g)

\* ---- C10 ------------------------------------------------------------------
\* C10: a Get that began after a Set or Cancel had returned is on the fast
\* path: it never holds the mutex, makes no channel, and returns either
\* (nil, false) or a stored payload with true.
C10_NoStaleReads ==
    \A g \in Getters :
        began[g].resolveDone =>
            /\ gpc[g] \in {"fastload", "done"}
            /\ mutex # <<"get", g>> /\ ~hasCh[g] /\ ~InWaiters(g)
            /\ gpc[g] = "fastload" => val \in stored
            /\ Returned(g) =>
                /\ how[g] = "fast"
                /\ ret[g] = <<Nil, FALSE>> \/ (Valid(g) /\ ret[g][1] \in stored)

\* after Set and Cancel calls, one Get returned a payload and one (nil, false)
C10_Witness ==
    \E g, h \in Getters :
        /\ began[g].resolveDone /\ began[h].resolveDone
        /\ Returned(g) /\ Valid(g) /\ ret[g][1] \in stored
        /\ Returned(h) /\ ret[h] = <<Nil, FALSE>>

\* ---- C11 ------------------------------------------------------------------
\* C11 as stated: a Get called with timeout 0 never makes a channel, never
\* is in the waiters and never waits in the select.
C11_ZeroNeverRegisters ==
    \A g \in Getters :
        timeout[g] = <<0>> => ~hasCh[g] /\ ~InWaiters(g) /\ gpc[g] # "wait"

\* C11 amended: timeout 0 is no special case.  A Get called with timeout 0
\* that found the status unset under the lock waits in the select with a
\* channel of its own, which is in the waiters until a Set or Cancel
\* notified it; once notified, the call can return what was delivered.
C11_ZeroRegisters ==
    \A g \in Getters :
        (timeout[g] = <<0>> /\ gpc[g] = "wait") =>
            /\ hasCh[g]
            /\ InWaiters(g) \/ CanRecv(g)
            /\ CanRecv(g) => ENABLED GetRecv(g)

\* a Get with timeout 0 that began before any Set holds the value of a later
\* Set in its channel and can return it
C11_Witness ==
    \E g \in Getters :
        /\ timeout[g] = <<0>> /\ gpc[g] = "wait" /\ ~began[g].setBegun
        /\ chanBuf[g] # <<>> /\ Head(chanBuf[g]) \in Values
        /\ ENABLED GetRecv(g)

\* ---- C12 ------------------------------------------------------------------
\* C12 as stated: some timeout value is the infinite one: a Get waiting
\* with it cannot return through the timeout branch.
C12_InfiniteSentinel ==
    \E d \in Timeouts :
        \A g \in Getters :
            (gpc[g] = "wait" /\ timeout[g] = <<d>>) => ~ENABLED GetTimeout(g)

\* C12 amended: no timeout value makes the wait unbounded.  Every waiting
\* Get, whatever its timeout, can return through the timeout branch; it
\* returns through its channel only after a Set or Cancel began.
C12_EveryTimeoutFires ==
    \A g \in Getters :
        /\ gpc[g] = "wait" => ENABLED GetTimeout(g)
        /\ (Returned(g) /\ how[g] = "chan") => ~NoResolveBegun

\* on an unresolved container, Gets wait with each of the timeout values and
\* the timer of each can fire
C12_Witness ==
    /\ status = unset /\ NoResolveBegun
    /\ \A d \in Timeouts :
        \E g \in Getters :
            gpc[g] = "wait" /\ timeout[g] = <<d>> /\ ENABLED GetTimeout(g)

\* ---- C13 ------------------------------------------------------------------
\* a Set or Cancel call that acquired the lock and did not return yet
SetBusy(s) == spc[s] \notin {"idle", "done"}
CancelBusy(c) == cpc[c] \notin {"idle", "done"}

\* no channel ever holds more than its one slot, no call panicked, and a
\* Set or Cancel in progress holds the lock and has a step it can take
C13_NeverBlocked ==
    /\ ~panicked
    /\ \A g \in Getters : Len(chanBuf[g]) <= ChanCap
    /\ \A s \in Setters :
        SetBusy(s) => mutex = <<"set", s>> /\ ENABLED SetStep(s)
    /\ \A c \in Cancelers :
        CancelBusy(c) => mutex = <<"cancel", c>> /\ ENABLED CancelStep(c)

\* C13: every Set or Cancel that acquired the lock is never blocked on a
\* send or close, returns, and has released the lock when it returned.
C13_SetCancelComplete ==
    /\ []C13_NeverBlocked
    /\ \A s \in Setters : SetBusy(s) ~> (spc[s] = "done" /\ mutex # <<"set", s>>)
    /\ \A c \in Cancelers :
        CancelBusy(c) ~> (cpc[c] = "done" /\ mutex # <<"cancel", c>>)

\* every Set and Cancel call returned although a Get had timed out and left
\* its channel registered, into which a Set then sent
C13_Witness ==
    /\ \A s \in Setters : spc[s] = "done"
    /\ \A c \in Cancelers : cpc[c] = "done"
    /\ mutex = Free
    /\ \E g \in Getters :
        Returned(g) /\ how[g] = "timeout" /\ hasCh[g] /\ chanBuf[g] # <<>>

\* ---- C14 ------------------------------------------------------------------
\* C14 as stated, for the version without Cancel: every Set call that
\* acquired the mutex returns and has released the mutex.
C14_SetCompletes ==
    \A s \in Setters : SetBusy(s) ~> (spc[s] = "done" /\ mutex # <<"set", s>>)

\* ---- C15 ------------------------------------------------------------------
\* the notifications the channel of Get g has had so far: the value in its
\* buffer, the value the Get received from it, and its close
Notified(g) ==
    Len(chanBuf[g])
        + (IF Returned(g) /\ how[g] = "chan" /\ Valid(g) THEN 1 ELSE 0)
        + (IF chanClosed[g] THEN 1 ELSE 0)

\* the Set or Cancel call holding the mutex went past position i of the
\* waiters in its loop
Passed(i) ==
    \/ \E s \in Setters : mutex = <<"set", s>> /\ spc[s] \in {"notify", "unlock"} /\ i < sidx[s]
    \/ \E c \in Cancelers : mutex = <<"cancel", c>> /\ cpc[c] \in {"notify", "unlock"} /\ i < cidx[c]

\* C15: no send on a closed channel and no second close ever happens; a
\* channel has had no notification while it waits in the collection for
\* its turn, one from the moment the loop went past it, and exactly one,
\* for good, once it has left the collection.
C15_ExactlyOnce ==
    /\ ~panicked
    /\ \A g \in Getters :
        /\ Notified(g) <= 1
        /\ ~hasCh[g] => Notified(g) = 0 /\ ~InWaiters(g)
        /\ (hasCh[g] /\ ~InWaiters(g)) => Notified(g) = 1
    /\ \A i \in 1..Len(waiters.chans) :
        Notified(waiters.chans[i]) = IF Passed(i) THEN 1 ELSE 0

\* a Get received the value sent to its channel, and the Set and Cancel
\* calls that ran afterwards did not send to or close that channel
C15_Witness ==
    /\ \A s \in Setters : spc[s] = "done"
    /\ \A c \in Cancelers : cpc[c] = "done"
    /\ \E g \in Getters :
        /\ Returned(g) /\ how[g] = "chan" /\ Valid(g)
        /\ chanBuf[g] = <<>> /\ ~chanClosed[g] /\ ~InWaiters(g)

\* ---- C16 ------------------------------------------------------------------
\* what a waiter of the first Set or Cancel call is to return
FirstOutcome ==
    IF firstRes[1] = "set" THEN <<firstRes[2], TRUE>> ELSE <<Nil, FALSE>>

\* C16: a Get registers only before the first Set or Cancel acquired the
\* mutex.  What is delivered to its channel is the outcome of that call,
\* and a Get that returned through its channel returned that outcome,
\* whichever Set and Cancel calls ran later.
C16_FirstOutcome ==
    \A g \in Getters :
        /\ (gpc[g] \in {"register", "wait"} /\ ~CanRecv(g)) =>
                \/ NoResolveBegun
                \/ InWaiters(g) /\ mutex[1] \in {"set", "cancel"}
        /\ (gpc[g] = "wait" /\ CanRecv(g)) =>
                /\ ~NoResolveBegun
                /\ RecvResult(chanBuf[g]) = FirstOutcome
        /\ (Returned(g) /\ how[g] = "chan") =>
                /\ ~NoResolveBegun
                /\ ret[g] = FirstOutcome

\* a Get returned the value of the first Set through its channel; a later
\* Set stored another value and a Cancel ran as well
C16_Witness ==
    /\ \A s \in Setters : spc[s] = "done"
    /\ \A c \in Cancelers : cpc[c] = "done"
    /\ \E g \in Getters :
        /\ Returned(g) /\ how[g] = "chan" /\ Valid(g)
        /\ ret[g][1] = firstRes[2] /\ ret[g][1] # val

\* ---- C17 ------------------------------------------------------------------
\* C17: a Get holds the mutex only between its Lock and the Unlock of the
\* branch it takes, where it always has a step to take; a Get waiting in
\* the select, and a Get that returned, does not hold it.  So the mutex
\* is never held by a call that waits for a Set, a Cancel or a timer.
C17_NoLockAcrossWait ==
    \A g \in Getters :
        /\ gpc[g] \in {"wait", "done", "idle", "lock", "fastload"} =>
                mutex # <<"get", g>>
        /\ mutex = <<"get", g>> =>
                /\ gpc[g] \in {"recheck", "register"}
                /\ ENABLED GetStep(g)
        /\ (gpc[g] = "wait" /\ mutex = Free) =>
                /\ \A s \in Setters : (spc[s] = "idle" /\ InOrder(spc, s)) => ENABLED SetLock(s)
                /\ \A c \in Cancelers : (cpc[c] = "idle" /\ InOrder(cpc, c)) => ENABLED CancelLock(c)

\* a Set holds the mutex and notifies while a Get waits in the select
C17_Witness ==
    \E g \in Getters :
        /\ gpc[g] = "wait"
        /\ \E s \in Setters : mutex = <<"set", s>> /\ spc[s] = "notify"

\* ---- C18 ------------------------------------------------------------------
\* C18: whenever the mutex is free and the status is set or canceled, the
\* waiters are empty; a Get about to append its channel holds the mutex
\* and the status is unset; only channels made by Get calls are waiters.
C18_ClearedOnResolution ==
    /\ (mutex = Free /\ status \in {set, canceled}) => Len(waiters.chans) = 0
    /\ \A g \in Getters :
        /\ gpc[g] = "register" => mutex = <<"get", g>> /\ status = unset
        /\ InWaiters(g) => hasCh[g]

\* the value is resolved and the waiters, which held the channel of a Get,
\* are empty
C18_Witness ==
    /\ mutex = Free /\ status \in {set, canceled}
    /\ waiters = NilSlice
    /\ \E g \in Getters : hasCh[g]

\* ---- C19 ------------------------------------------------------------------
\* C19: a step of a Get call changes neither the status nor the payload.
\* The step that returns by timeout changes nothing but the call's own
\* position and results: the waiters, the channels, the mutex and every
\* other Get call stay as they are.
C19_GetFrame ==
    [][\A g \in Getters :
        gpc'[g] # gpc[g] =>
            /\ status' = status /\ val' = val
            /\ UNCHANGED <<setVars, cancelVars, histVars>>
            /\ (gpc'[g] = "done" /\ how'[g] = "timeout") =>
                /\ UNCHANGED <<waiters, mutex, chanBuf, chanClosed, hasCh>>
                /\ \A h \in Getters \ {g} :
                    /\ gpc'[h] = gpc[h] /\ ret'[h] = ret[h]
                    /\ how'[h] = how[h] /\ timeout'[h] = timeout[h]]_vars

\* one Get timed out; a Get that waited along with it returned the value of
\* a Set through its channel
C19_Witness ==
    \E g, h \in Getters :
        /\ Returned(g) /\ how[g] = "timeout" /\ ret[g] = <<Nil, FALSE>>
        /\ Returned(h) /\ how[h] = "chan" /\ Valid(h) /\ ret[h][1] \in stored
        /\ status = set /\ val \in stored

\* ---- C20 ------------------------------------------------------------------
\* C20: whenever the status is set, the payload slot holds a value that a
\* Set call stored; a Get that read the status set and is about to load
\* the payload finds one, and no Get returned (nil, true).
C20_PayloadVisible ==
    /\ status = set => val # Nil /\ val \in stored
    /\ \A g \in Getters :
        /\ gpc[g] = "fastload" => val # Nil /\ val \in stored
        /\ (Returned(g) /\ Valid(g)) => ret[g][1] # Nil /\ ret[g][1] \in stored

\* with a Set call in progress, one Get returned a payload on the unlocked
\* fast path and another on the locked slow path
C20_Witness ==
    /\ \E s \in Setters : SetBusy(s)
    /\ \E g, h \in Getters :
        /\ Returned(g) /\ how[g] = "fast" /\ Valid(g) /\ ret[g][1] \in Values
        /\ Returned(h) /\ how[h] = "slow" /\ Valid(h) /\ ret[h][1] \in Values

=============================================================================
